---------------------------- MODULE Spec2Model ----------------------------
(***************************************************************************)
(* Model of the newsletter generator: the content loader                   *)
(* (newsletter/content.py), the image providers and selector               *)
(* (newsletter/images), the renderer entry point (newsletter/render.py)    *)
(* and the generate command (newsletter/cli.py).                           *)
(***************************************************************************)
EXTENDS Integers, Sequences, FiniteSets, TLC

VARIABLES
    inputFile,    \* the file behind the path handed to load_content / --data
    loadResult,   \* what the last load_content(inputFile) call produced
    aliasResult,  \* what load_content produced for the alias-renamed copy
    cfg,          \* the AppConfig snapshot
    templateOk,   \* templates/newsletter.html can be loaded
    outDir,       \* what is at the --out path: "absent", "dir" or "file"
    indexHtml,    \* out_dir/index.html
    pc,           \* position of the generate command
    openAfter,    \* the --open flag of the current run
    html,         \* markup rendered by the current run
    stdout,       \* lines echoed by the current run
    exit,         \* exit status of the last finished run
    error,        \* exception that ended the last finished run
    launch,       \* what became of the viewer launch of the current run
    priorDir,     \* outDir when the current run started
    priorIndex,   \* indexHtml when the current run started
    prevExit,     \* exit status of the run before the current one
    search_paths, \* LocalProvider.search_paths
    disk,         \* the candidate paths that exist on disk
    fetched,      \* what the last LocalProvider.fetch call produced
    chosen        \* what the last choose_image call produced

loadVars == <<inputFile, loadResult, aliasResult>>
envVars == <<cfg, templateOk>>
fsVars == <<outDir, indexHtml>>
runVars == <<pc, openAfter, html, stdout, exit, error, launch, priorDir, priorIndex, prevExit>>
imageVars == <<search_paths, disk, fetched, chosen>>
vars == <<loadVars, envVars, fsVars, runVars, imageVars>>

(***************************************************************************)
(* Bounds.                                                                 *)
(***************************************************************************)
\* largest number of top-level keys in a document handed to load_content
MaxKeys == 2

(***************************************************************************)
(* Python values as they come out of yaml.safe_load / json.loads.          *)
(***************************************************************************)
None == [kind |-> "none", val |-> <<>>]
Str(s) == [kind |-> "str", val |-> s]
List(l) == [kind |-> "list", val |-> l]
Num(n) == [kind |-> "int", val |-> n]

\* Python truth value of a parsed value: None, "", [] and 0 are falsy
Truthy(v) == /\ v # None
             /\ v # Str("")
             /\ v # List(<<>>)
             /\ v # Num(0)

\* Python's `a or b`: a when a is truthy, else b
Or(a, b) == IF Truthy(a) THEN a ELSE b

\* dict.get(key): the value, or None when the key is missing
Get(data, key) == IF key \in DOMAIN data THEN data[key] ELSE None

\* dict.get(key, default): the value (even None), or default when missing
GetDefault(data, key, default) == IF key \in DOMAIN data THEN data[key] ELSE default

(***************************************************************************)
(* Input documents.                                                        *)
(***************************************************************************)
CanonicalKeys == {"grade6", "grade7", "grade8"}
AliasKeys == {"6th", "7th", "8th"}
SectionKeys == {"announcements", "events", "achievements"}
Keys == CanonicalKeys \cup AliasKeys \cup SectionKeys \cup {"week", "date"}

\* the alias of each canonical grade key (content.py, GradeKeys, inverted)
AliasOf(k) == CASE k = "grade6" -> "6th"
                [] k = "grade7" -> "7th"
                [] k = "grade8" -> "8th"
                [] OTHER -> k

ListValues == {None, List(<<>>), List(<<"a">>), List(<<"b">>), Num(0), Str("TBD")}
SectionValues == {None, List(<<>>), List(<<"a">>)}
WeekValues == {None, Str(""), Str("Week 12")}
DateValues == {None, Str("2025-03-14")}
AllValues == ListValues \cup SectionValues \cup WeekValues \cup DateValues

ValuesOf(k) == IF k \in CanonicalKeys \cup AliasKeys THEN ListValues
               ELSE IF k \in SectionKeys THEN SectionValues
               ELSE IF k = "week" THEN WeekValues
               ELSE DateValues

\* parsed mappings with at most n of the recognized keys
DocsUpTo(n) ==
    UNION { { d \in [S -> AllValues] : \A k \in S : d[k] \in ValuesOf(k) } :
            S \in { T \in SUBSET Keys : Cardinality(T) <= n } }

Missing == [exists |-> FALSE, suffix |-> "", body |-> "none", doc |-> <<>>]
File(suffix, body, doc) == [exists |-> TRUE, suffix |-> suffix, body |-> body, doc |-> doc]

Suffixes == {".yml", ".JSON"}

\* files: an empty file, a malformed file, or a file holding a mapping
FilesUpTo(n) ==
    { File(s, "empty", <<>>) : s \in Suffixes }
    \cup { File(s, "malformed", <<>>) : s \in Suffixes }
    \cup { File(s, "mapping", d) : s \in Suffixes, d \in DocsUpTo(n) }

(***************************************************************************)
(* content.py                                                              *)
(***************************************************************************)
\* str.lower() on the suffixes in use
Lower(s) == IF s = ".JSON" THEN ".json" ELSE s

\* lines 13-16: the parsed document, or a parse error
\*   yaml.safe_load("") is None, and `None or {}` is {};
\*   json.loads(text or "{}") parses "{}" for an empty text
Parse(f) ==
    IF f.body = "malformed" THEN [err |-> "ParseError", data |-> <<>>]
    ELSE IF Lower(f.suffix) \in {".yaml", ".yml"}
         THEN [err |-> "none", data |-> IF f.body = "empty" THEN <<>> ELSE f.doc]
         ELSE [err |-> "none", data |-> IF f.body = "empty" THEN <<>> ELSE f.doc]

EmptyList == List(<<>>)

\* the record with the grade7 alias looked up under the wrong key
Normalize_AliasTypo(data) ==
    [ grade6        |-> Or(Or(Get(data, "grade6"), Get(data, "6th")), EmptyList),
      grade7        |-> Or(Or(Get(data, "grade7"), Get(data, "6th")), EmptyList),
      grade8        |-> Or(Or(Get(data, "grade8"), Get(data, "8th")), EmptyList),
      announcements |-> GetDefault(data, "announcements", EmptyList),
      events        |-> GetDefault(data, "events", EmptyList),
      achievements  |-> GetDefault(data, "achievements", EmptyList),
      week          |-> Or(Get(data, "week"), Str("This Week")),
      date          |-> Get(data, "date") ]

\* the record with the alias key consulted before the canonical key
Normalize_AliasFirst(data) ==
    [ grade6        |-> Or(Or(Get(data, "6th"), Get(data, "grade6")), EmptyList),
      grade7        |-> Or(Or(Get(data, "7th"), Get(data, "grade7")), EmptyList),
      grade8        |-> Or(Or(Get(data, "8th"), Get(data, "grade8")), EmptyList),
      announcements |-> GetDefault(data, "announcements", EmptyList),
      events        |-> GetDefault(data, "events", EmptyList),
      achievements  |-> GetDefault(data, "achievements", EmptyList),
      week          |-> Or(Get(data, "week"), Str("This Week")),
      date          |-> Get(data, "date") ]

\* the record with no placeholder for a missing week
Normalize_NoWeekDefault(data) ==
    [ grade6        |-> Or(Or(Get(data, "grade6"), Get(data, "6th")), EmptyList),
      grade7        |-> Or(Or(Get(data, "grade7"), Get(data, "7th")), EmptyList),
      grade8        |-> Or(Or(Get(data, "grade8"), Get(data, "8th")), EmptyList),
      announcements |-> GetDefault(data, "announcements", EmptyList),
      events        |-> GetDefault(data, "events", EmptyList),
      achievements  |-> GetDefault(data, "achievements", EmptyList),
      week          |-> Get(data, "week"),
      date          |-> Get(data, "date") ]

\* lines 19-28: the normalized record
Normalize(data) ==
    [ grade6        |-> Or(Or(Get(data, "grade6"), Get(data, "6th")), EmptyList),
      grade7        |-> Or(Or(Get(data, "grade7"), Get(data, "7th")), EmptyList),
      grade8        |-> Or(Or(Get(data, "grade8"), Get(data, "8th")), EmptyList),
      announcements |-> GetDefault(data, "announcements", EmptyList),
      events        |-> GetDefault(data, "events", EmptyList),
      achievements  |-> GetDefault(data, "achievements", EmptyList),
      week          |-> Or(Get(data, "week"), Str("This Week")),
      date          |-> Get(data, "date") ]

NoRecord == <<>>

\* load_content that reads a missing file as an empty one
load_content_NoExistsCheck(f) ==
    LET p == Parse(f)
    IN  IF p.err # "none" THEN [err |-> p.err, out |-> NoRecord]
        ELSE [err |-> "none", out |-> Normalize(p.data)]

\* load_content(path): an error, or the normalized record
load_content(f) ==
    IF ~f.exists THEN [err |-> "FileNotFoundError", out |-> NoRecord]
    ELSE LET p == Parse(f)
         IN  IF p.err # "none" THEN [err |-> p.err, out |-> NoRecord]
             ELSE [err |-> "none", out |-> Normalize(p.data)]

NotCalled == [err |-> "not called", out |-> NoRecord]

(***************************************************************************)
(* config.py                                                               *)
(***************************************************************************)
\* AppConfig with the fields the program reads; a path is the sequence of
\* its components
AppConfig(brand_name, assets_dir) == [brand_name |-> brand_name, assets_dir |-> assets_dir]

DefaultConfig == AppConfig("Glennallen Panthers", <<"assets">>)

BrandNames == {"Glennallen Panthers", "Somers Classroom"}
AssetsDirs == {<<"assets">>, <<>>, <<"/", "srv", "static">>}
Configs == { AppConfig(b, a) : b \in BrandNames, a \in AssetsDirs }

(***************************************************************************)
(* The state no operation is using.                                        *)
(***************************************************************************)
NoFile == [exists |-> FALSE, text |-> <<>>]
TextFile(text) == [exists |-> TRUE, text |-> text]
NoHtml == <<>>

NotFetched == [req |-> <<>>, err |-> "not called", res |-> <<>>]
NotChosen == [topic |-> "", err |-> "not called", res |-> <<>>]

FsIdle(d, f) ==
    /\ outDir = d
    /\ indexHtml = f

RunIdle ==
    /\ pc = "idle"
    /\ openAfter = FALSE
    /\ html = NoHtml
    /\ stdout = <<>>
    /\ exit = -1
    /\ error = "none"
    /\ launch = "not attempted"
    /\ priorDir = outDir
    /\ priorIndex = indexHtml
    /\ prevExit = -1

ImageIdle ==
    /\ search_paths = <<>>
    /\ disk = {}
    /\ fetched = NotFetched
    /\ chosen = NotChosen

(***************************************************************************)
(* The loader on its own: load_content applied to bounded inputs.          *)
(***************************************************************************)
\* the document with every canonical grade key renamed to its alias
RenameToAlias(d) ==
    [ k \in { AliasOf(c) : c \in DOMAIN d } |->
        d[CHOOSE c \in DOMAIN d : AliasOf(c) = k] ]

HasDoc(f) == f.exists /\ f.body = "mapping"

InitLoad ==
    /\ inputFile \in FilesUpTo(MaxKeys) \cup {Missing}
    /\ loadResult = NotCalled
    /\ aliasResult = NotCalled
    /\ cfg = DefaultConfig
    /\ templateOk = TRUE
    /\ FsIdle("absent", NoFile)
    /\ RunIdle
    /\ ImageIdle

\* load_content(path) called directly, as tests/test_render.py does
CallLoadContent ==
    /\ loadResult = NotCalled
    /\ pc \in {"idle", "done"}
    /\ loadResult' = load_content(inputFile)
    /\ UNCHANGED <<inputFile, aliasResult, envVars, fsVars, runVars, imageVars>>

\* load_content called on the copy of the document that uses the alias keys
CallLoadAliased ==
    /\ aliasResult = NotCalled
    /\ HasDoc(inputFile)
    /\ DOMAIN inputFile.doc \cap AliasKeys = {}
    /\ aliasResult' = load_content([inputFile EXCEPT !.doc = RenameToAlias(inputFile.doc)])
    /\ UNCHANGED <<inputFile, loadResult, envVars, fsVars, runVars, imageVars>>

NextLoad == CallLoadContent \/ CallLoadAliased

SpecLoad == InitLoad /\ [][NextLoad]_vars

(***************************************************************************)
(* Properties of the loader.                                               *)
(***************************************************************************)
\* the mapping load_content normalizes for a file that parses
DataOf(f) == IF f.body = "mapping" THEN f.doc ELSE <<>>

Loaded == loadResult.err = "none"
Present(d, k) == k \in DOMAIN d /\ d[k] # None

SequenceFields == {"grade6", "grade7", "grade8", "announcements", "events", "achievements"}

\* C1: a document that gives its grade data under the canonical keys and the
\* same document with those keys renamed to their aliases load to the same
\* normalized record (all eight fields equal).
C1_AliasEquivalence ==
    (loadResult # NotCalled /\ aliasResult # NotCalled) => aliasResult = loadResult

C1_Witness ==
    /\ Loaded
    /\ aliasResult.err = "none"
    /\ \E k \in CanonicalKeys :
          /\ k \in DOMAIN inputFile.doc
          /\ Truthy(inputFile.doc[k])
          /\ aliasResult.out[k] = inputFile.doc[k]

\* C2: whatever keys and values (null included) the document has, each of the
\* six sequence fields of the normalized record holds a sequence, never null.
C2_SequencesNeverNull ==
    Loaded => \A f \in SequenceFields : loadResult.out[f].kind = "list"

\* the grade value the claim C3 describes: first non-null of canonical, alias
FirstNonNull(d, k) ==
    IF Present(d, k) THEN d[k]
    ELSE IF Present(d, AliasOf(k)) THEN d[AliasOf(k)]
    ELSE EmptyList

\* the grade value the code computes: first truthy of canonical, alias
FirstNonEmpty(d, k) ==
    IF k \in DOMAIN d /\ Truthy(d[k]) THEN d[k]
    ELSE IF AliasOf(k) \in DOMAIN d /\ Truthy(d[AliasOf(k)]) THEN d[AliasOf(k)]
    ELSE EmptyList

\* C3 as stated: each grade field is the canonical key's value whenever that
\* key is present and non-null (an empty sequence included), the alias key's
\* value only when the canonical key is absent or null, and empty only when
\* both are absent or null.
C3_FirstNonNullWins ==
    Loaded => \A k \in CanonicalKeys :
                 loadResult.out[k] = FirstNonNull(DataOf(inputFile), k)

\* C3 amended: each grade field is the canonical key's value whenever that key
\* is present with a truthy value (not null, not empty, not zero), the alias
\* key's value when the canonical key is absent or falsy and the alias key is
\* present with a truthy value, and the empty sequence otherwise.
C3_FirstNonEmptyWins ==
    Loaded => \A k \in CanonicalKeys :
                 loadResult.out[k] = FirstNonEmpty(DataOf(inputFile), k)

C3_Witness ==
    /\ Loaded
    /\ \E k \in CanonicalKeys :
          LET d == DataOf(inputFile)
          IN  /\ k \in DOMAIN d /\ AliasOf(k) \in DOMAIN d
              /\ Truthy(d[k]) /\ Truthy(d[AliasOf(k)])
              /\ d[k] # d[AliasOf(k)]
              /\ loadResult.out[k] = d[k]

\* C4: a document without a week key gets the placeholder "This Week"; a
\* non-empty week string is passed through; date is passed through as given,
\* and is null when the document has none.
C4_WeekAndDate ==
    Loaded =>
        LET d == DataOf(inputFile)
        IN  /\ "week" \notin DOMAIN d => loadResult.out.week = Str("This Week")
            /\ ("week" \in DOMAIN d /\ d["week"].kind = "str" /\ d["week"] # Str(""))
                  => loadResult.out.week = d["week"]
            /\ loadResult.out.date = (IF "date" \in DOMAIN d THEN d["date"] ELSE None)

C4_Witness ==
    /\ Loaded
    /\ "week" \notin DOMAIN DataOf(inputFile)
    /\ "date" \in DOMAIN DataOf(inputFile)
    /\ loadResult.out.week = Str("This Week")
    /\ loadResult.out.date = Str("2025-03-14")

(***************************************************************************)
(* render.py                                                               *)
(***************************************************************************)
\* the items of a content field; a field that is not a list shows nothing
Items(v) == IF v.kind = "list" THEN v.val ELSE <<>>
Text(v) == IF v.kind = "str" THEN <<v.val>> ELSE <<>>

\* the markup templates/newsletter.html produces: the brand name, the week
\* label and date, and each section's label followed by its items
Template(content, c) ==
    <<c.brand_name>> \o Text(content.week) \o Text(content.date)
    \o <<"6th Grade">> \o Items(content.grade6)
    \o <<"7th Grade">> \o Items(content.grade7)
    \o <<"8th Grade">> \o Items(content.grade8)
    \o <<"Announcements">> \o Items(content.announcements)
    \o <<"Events">> \o Items(content.events)
    \o <<"Achievements">> \o Items(content.achievements)

\* render_newsletter: get_template raises when the template cannot be loaded
render_newsletter(content, c) ==
    IF templateOk THEN [err |-> "none", html |-> Template(content, c)]
    ELSE [err |-> "TemplateNotFound", html |-> NoHtml]

(***************************************************************************)
(* cli.py                                                                  *)
(***************************************************************************)
\* largest number of top-level keys in a document handed to generate
MaxRunKeys == 1

OldHtml == <<"last week's newsletter">>

\* the options click accepts: --data must exist, --out must not be a file
ClickAccepts == inputFile.exists /\ outDir # "file"

\* lines 24-25: Path.mkdir(parents=True, exist_ok=True)
mkdir(d) ==
    IF d = "file" THEN [err |-> "FileExistsError", dir |-> d]
    ELSE [err |-> "none", dir |-> "dir"]

\* write_text that opens the file for appending
write_text_Append(f, text) == TextFile(f.text \o text)

\* lines 26-27: Path.write_text replaces the file's content
write_text(f, text) == TextFile(text)

Platforms == {"win32", "darwin", "linux"}

\* what the platform's launcher can do: os.startfile returns or raises;
\* subprocess.run(check=False) returns any exit code or raises
LaunchResults(platform) ==
    IF platform = "win32" THEN {"ok", "raised"} ELSE {"ok", "nonzero", "raised"}

\* the open step with no try/except around the launch
open_step_Propagates(r) ==
    IF r = "raised" THEN [exit |-> 1, error |-> "OSError", launch |-> r]
    ELSE [exit |-> 0, error |-> "none", launch |-> r]

\* lines 30-40: the launch's exception is caught, its exit code not checked
open_step(r) == [exit |-> 0, error |-> "none", launch |-> r]

\* generate is invoked: click checks the options, the body starts (line 19)
Invoke ==
    /\ pc \in {"idle", "done"}
    /\ \E o \in BOOLEAN : openAfter' = o
    /\ loadResult' = NotCalled
    /\ html' = NoHtml
    /\ stdout' = <<>>
    /\ launch' = "not attempted"
    /\ priorDir' = outDir
    /\ priorIndex' = indexHtml
    /\ prevExit' = exit
    /\ IF ClickAccepts
       THEN pc' = "load" /\ exit' = -1 /\ error' = "none"
       ELSE pc' = "done" /\ exit' = 2 /\ error' = "UsageError"
    /\ UNCHANGED <<inputFile, aliasResult, envVars, fsVars, imageVars>>

\* line 20: content = load_content(data)
GenLoad ==
    /\ pc = "load"
    /\ LET r == load_content(inputFile)
       IN  /\ loadResult' = r
           /\ IF r.err = "none"
              THEN pc' = "render" /\ UNCHANGED <<exit, error>>
              ELSE pc' = "done" /\ exit' = 1 /\ error' = r.err
    /\ UNCHANGED <<inputFile, aliasResult, envVars, fsVars, imageVars,
                   openAfter, html, stdout, launch, priorDir, priorIndex, prevExit>>

\* line 22: html = render_newsletter(content, cfg)
GenRender ==
    /\ pc = "render"
    /\ LET r == render_newsletter(loadResult.out, cfg)
       IN  /\ html' = r.html
           /\ IF r.err = "none"
              THEN pc' = "mkdir" /\ UNCHANGED <<exit, error>>
              ELSE pc' = "done" /\ exit' = 1 /\ error' = r.err
    /\ UNCHANGED <<loadVars, envVars, fsVars, imageVars,
                   openAfter, stdout, launch, priorDir, priorIndex, prevExit>>

\* lines 24-25: out_path.mkdir(parents=True, exist_ok=True)
GenMkdir ==
    /\ pc = "mkdir"
    /\ LET r == mkdir(outDir)
       IN  /\ outDir' = r.dir
           /\ IF r.err = "none"
              THEN pc' = "write" /\ UNCHANGED <<exit, error>>
              ELSE pc' = "done" /\ exit' = 1 /\ error' = r.err
    /\ UNCHANGED <<loadVars, envVars, indexHtml, imageVars,
                   openAfter, html, stdout, launch, priorDir, priorIndex, prevExit>>

\* lines 26-27: index_html.write_text(html)
GenWrite ==
    /\ pc = "write"
    /\ indexHtml' = write_text(indexHtml, html)
    /\ pc' = "echo"
    /\ UNCHANGED <<loadVars, envVars, outDir, imageVars,
                   openAfter, html, stdout, exit, error, launch, priorDir, priorIndex, prevExit>>

\* line 28: click.echo(f"Wrote {index_html}")
GenEcho ==
    /\ pc = "echo"
    /\ stdout' = Append(stdout, <<"Wrote", "index.html">>)
    /\ pc' = "open"
    /\ UNCHANGED <<loadVars, envVars, fsVars, imageVars,
                   openAfter, html, exit, error, launch, priorDir, priorIndex, prevExit>>

\* lines 30-40: the optional launch of the platform viewer, then return
GenOpen ==
    /\ pc = "open"
    /\ IF openAfter
       THEN \E platform \in Platforms : \E r \in LaunchResults(platform) :
               /\ exit' = open_step(r).exit
               /\ error' = open_step(r).error
               /\ launch' = open_step(r).launch
       ELSE exit' = 0 /\ error' = "none" /\ UNCHANGED launch
    /\ pc' = "done"
    /\ UNCHANGED <<loadVars, envVars, fsVars, imageVars,
                   openAfter, html, stdout, priorDir, priorIndex, prevExit>>

Init ==
    /\ inputFile \in FilesUpTo(MaxRunKeys) \cup {Missing}
    /\ loadResult = NotCalled
    /\ aliasResult = NotCalled
    /\ cfg \in { c \in Configs : c.assets_dir = <<"assets">> }
    /\ templateOk \in BOOLEAN
    /\ \/ FsIdle("absent", NoFile)
       \/ FsIdle("file", NoFile)
       \/ FsIdle("dir", NoFile)
       \/ FsIdle("dir", TextFile(OldHtml))
    /\ RunIdle
    /\ ImageIdle

Next ==
    \/ CallLoadContent
    \/ Invoke
    \/ GenLoad
    \/ GenRender
    \/ GenMkdir
    \/ GenWrite
    \/ GenEcho
    \/ GenOpen

Spec == Init /\ [][Next]_vars

(***************************************************************************)
(* Properties of the generate command.                                     *)
(***************************************************************************)
RunOver == pc = "done"
Written == indexHtml = TextFile(html)
Reported == stdout = << <<"Wrote", "index.html">> >>

\* C5: with a missing input file load_content fails with FileNotFoundError,
\* and a run ends without creating the output directory, without writing
\* index.html and without reporting a written path.
C5_MissingInput ==
    ~inputFile.exists =>
        /\ loadResult \in {NotCalled, [err |-> "FileNotFoundError", out |-> NoRecord]}
        /\ outDir = priorDir
        /\ indexHtml = priorIndex
        /\ stdout = <<>>
        /\ RunOver => exit # 0

C5_Witness ==
    /\ ~inputFile.exists
    /\ loadResult.err = "FileNotFoundError"
    /\ RunOver
    /\ exit = 2
    /\ outDir = "absent"

\* C8: when the viewer launch is requested and fails, the failure is
\* swallowed: index.html was written and its path reported before the launch,
\* the launch leaves the file as written, and the run ends as it does when
\* the launch is not requested or works.
C8_LaunchSwallowed ==
    /\ launch # "not attempted" => Written /\ Reported
    /\ pc = "open" => Written /\ Reported /\ launch = "not attempted"
    /\ (RunOver /\ Written /\ Reported) => exit = 0 /\ error = "none"

C8_Witness ==
    /\ RunOver
    /\ openAfter
    /\ launch = "raised"
    /\ exit = 0
    /\ Written

\* C9: a run into an output directory that already exists, with or without
\* an index.html in it, raises nothing once the content is loaded and
\* rendered; index.html then holds exactly the markup of this run; and a
\* further run on the same input leaves the same content.
C9_OverwriteExisting ==
    /\ (priorDir = "dir" /\ pc \in {"echo", "open"}) => Written
    /\ (priorDir = "dir" /\ RunOver /\ html # NoHtml) =>
          exit = 0 /\ error = "none" /\ Written
    /\ (RunOver /\ exit = 0 /\ prevExit = 0) => indexHtml = priorIndex

C9_Witness ==
    /\ RunOver
    /\ exit = 0
    /\ priorDir = "dir"
    /\ priorIndex = TextFile(OldHtml)
    /\ Written
    /\ html # OldHtml


(***************************************************************************)
(* images/providers.py                                                     *)
(***************************************************************************)
\* a path string, held as the sequence of its components
PathStr(parts) == [kind |-> "path", val |-> parts]

ImageRequest(prompt, style, hint) == [prompt |-> prompt, style |-> style, hint |-> hint]
ImageResult(url, path, attribution) == [url |-> url, path |-> path, attribution |-> attribution]

\* ImageResult(): every field at its default
EmptyResult == ImageResult(None, None, None)

Returned(res) == [err |-> "none", res |-> res]
Raised(e) == [err |-> e, res |-> EmptyResult]

RECURSIVE FirstOnDisk(_)
FirstOnDisk(paths) ==
    IF paths = <<>> THEN Returned(EmptyResult)
    ELSE IF Head(paths) \in disk
         THEN Returned(ImageResult(None, Head(paths), Str("Local asset")))
         ELSE FirstOnDisk(Tail(paths))

\* fetch that skips the candidates that are not on disk
LocalProvider_fetch_ExistsCheck(paths, req) == FirstOnDisk(paths)

\* fetch that indexes the first candidate without looking at the length
LocalProvider_fetch_Index(paths, req) ==
    IF Len(paths) = 0 THEN Raised("IndexError")
    ELSE Returned(ImageResult(None, paths[1], Str("Local asset")))

\* LocalProvider.fetch: the loop body returns on its first iteration
LocalProvider_fetch(paths, req) ==
    IF Len(paths) > 0
    THEN Returned(ImageResult(None, paths[1], Str("Local asset")))
    ELSE Returned(EmptyResult)

\* LocalProvider.available
LocalProvider_available == TRUE

(***************************************************************************)
(* images/selector.py                                                      *)
(***************************************************************************)
\* str(Path(base) / "images" / "panther" / name)
AssetPath(base, name) == PathStr(base \o <<"images", "panther", name>>)

\* choose_image with the badge listed before the header
choose_image_BadgeFirst(topic, c) ==
    LocalProvider_fetch(<<AssetPath(c.assets_dir, "badge.png"),
                          AssetPath(c.assets_dir, "header.png")>>,
                        ImageRequest(topic, None, None))

choose_image(topic, c) ==
    LET assets == <<AssetPath(c.assets_dir, "header.png"),
                    AssetPath(c.assets_dir, "badge.png")>>
    IN  LocalProvider_fetch(assets, ImageRequest(topic, None, None))

(***************************************************************************)
(* The image providers on their own.                                       *)
(***************************************************************************)
\* largest number of candidate paths handed to a LocalProvider
MaxCandidates == 2

CandidatePaths == { PathStr(<<"assets", "a.png">>),
                    PathStr(<<"assets", "b.png">>),
                    PathStr(<<"tmp", "c.png">>) }

CandidateLists == UNION { [1..n -> CandidatePaths] : n \in 0..MaxCandidates }

Topics == {"", "sports", "science fair"}
Styles == {None, Str("flat")}
Requests == { ImageRequest(t, st, None) : t \in Topics, st \in Styles }

InitImage ==
    /\ inputFile = Missing
    /\ loadResult = NotCalled
    /\ aliasResult = NotCalled
    /\ cfg \in Configs
    /\ templateOk = TRUE
    /\ FsIdle("absent", NoFile)
    /\ RunIdle
    /\ search_paths \in CandidateLists
    /\ disk \in SUBSET CandidatePaths
    /\ fetched = NotFetched
    /\ chosen = NotChosen

\* provider.fetch(req) on the provider built over search_paths
CallFetch ==
    /\ \E req \in Requests :
          fetched' = [req |-> req] @@ LocalProvider_fetch(search_paths, req)
    /\ UNCHANGED <<loadVars, envVars, fsVars, runVars, search_paths, disk, chosen>>

\* choose_image(topic, cfg)
CallChooseImage ==
    /\ \E topic \in Topics :
          chosen' = [topic |-> topic] @@ choose_image(topic, cfg)
    /\ UNCHANGED <<loadVars, envVars, fsVars, runVars, search_paths, disk, fetched>>

NextImage == CallFetch \/ CallChooseImage

SpecImage == InitImage /\ [][NextImage]_vars

\* C6: on a provider with a non-empty candidate list every fetch returns the
\* first candidate as path, "Local asset" as attribution and no url, whether
\* or not that path exists on disk.
C6_FirstCandidate ==
    (fetched # NotFetched /\ Len(search_paths) > 0) =>
        /\ fetched.err = "none"
        /\ fetched.res.path = search_paths[1]
        /\ fetched.res.attribution = Str("Local asset")
        /\ fetched.res.url = None

C6_Witness ==
    /\ fetched # NotFetched
    /\ Len(search_paths) = 2
    /\ search_paths[1] \notin disk
    /\ search_paths[2] \in disk
    /\ fetched.res.path = search_paths[1]

\* C7: on a provider with an empty candidate list every fetch returns the
\* empty ImageResult (no path, no url, no attribution) and raises nothing.
C7_EmptyCandidates ==
    (fetched # NotFetched /\ Len(search_paths) = 0) =>
        /\ fetched.err = "none"
        /\ fetched.res = ImageResult(None, None, None)

C7_Witness ==
    /\ fetched # NotFetched
    /\ search_paths = <<>>
    /\ fetched.res.path = None

\* C10: for every topic and configuration choose_image returns the header
\* image under assets_dir/images/panther as path, "Local asset" as
\* attribution and no url, whatever the topic.
C10_HeaderImage ==
    chosen # NotChosen =>
        /\ chosen.err = "none"
        /\ chosen.res.path = PathStr(cfg.assets_dir \o <<"images", "panther", "header.png">>)
        /\ chosen.res.attribution = Str("Local asset")
        /\ chosen.res.url = None

C10_Witness ==
    /\ chosen # NotChosen
    /\ chosen.topic = "science fair"
    /\ cfg.assets_dir = <<"/", "srv", "static">>
    /\ chosen.res.path = PathStr(<<"/", "srv", "static", "images", "panther", "header.png">>)

=============================================================================
